---- MODULE Spec2Model ----
(***************************************************************************)
(* A model of the New Relic SCIM Go client (package newrelicscim):         *)
(* the Client configuration, the transport step doRequest, the resource    *)
(* codec (fill_defaults, JSON encoding and decoding of the wire shapes)    *)
(* and the fourteen public operations on Users and Groups.                 *)
(*                                                                         *)
(* One call runs at a time.  A call is a small state machine:              *)
(*   idle -> built -> ready -> responded -> transported -> parsed          *)
(*        -> returned | panicked                                           *)
(* Go values are modelled as records keyed by the Go field names, JSON     *)
(* documents as tagged values [t, v] keyed by the JSON names of the tags.  *)
(* A nil slice and an empty slice are both the empty sequence; values the  *)
(* caller passes hold nil slices where they are empty.                     *)
(***************************************************************************)
EXTENDS Integers, Sequences, FiniteSets, TLC

VARIABLES
    client,     \* the Client built by NewClient: BaseUrl, ApiToken, HttpClient
    pc,         \* position of the running call
    op,         \* name of the public operation that is running
    args,       \* the caller's arguments, as the caller holds them
    req,        \* the *http.Request built by http.NewRequest
    sent,       \* requests handed to HttpClient.Do during this call, in order
    resp,       \* the *http.Response returned by HttpClient.Do
    body,       \* the []byte doRequest returned to the operation
    steps,      \* the steps this call has taken, in order
    okResp,     \* the operation's named result holding the success shape
    errResp,    \* the operation's named result holding the error shape
    err,        \* the operation's named result err
    codec,      \* a value under repeated fill_defaults (codec specification)
    parked,     \* the locals of the other caller's call (parallel specification)
    callerUser  \* the User value the caller passed, as the caller holds it now

vars == <<client, pc, op, args, req, sent, resp, body, steps, okResp, errResp, err, codec,
          parked, callerUser>>

----------------------------------------------------------------------------
(* Bounds of the model *)

\* longest schema list a caller supplies
MaxSchemas == 2

\* largest number of times fill_defaults is applied to one value
MaxFills == 2

----------------------------------------------------------------------------
(* Literals of the source *)

BaseUrlLiteral == "https://scim-provisioning.service.newrelic.com/scim/v2/"

TimeoutSeconds == 20

userPath == "Users"

groupPath == "Groups"

CoreUserURN == "urn:ietf:params:scim:schemas:core:2.0:User"

CoreGroupURN == "urn:ietf:params:scim:schemas:core:2.0:Group"

PatchOpURN == "urn:ietf:params:scim:api:messages:2.0:PatchOp"

ErrorURN == "urn:ietf:params:scim:api:messages:2.0:Error"

\* the URN in the default schema list of UserTypeBody
ExtensionSchemaURN == "urn:ietf:params:scim:schemas:extension:newrelic:2.0:User"

\* the URN in the json tag of the UserTypeBody attribute
ExtensionKeyURN == "urn:ietf:params:scim:schemas:extension:newrelic:2.1:User"

DefaultTimezone == "Europe/Istanbul"

----------------------------------------------------------------------------
(* Errors.  Nil is Go's nil error. *)

Nil == [kind |-> "nil"]

\* fmt.Errorf("error body: %s\nstatus Code: %d", body, resp.StatusCode)
StatusError(b, code) == [kind |-> "status", body |-> b, code |-> code]

----------------------------------------------------------------------------
(* JSON documents *)

JNull == [t |-> "null", v |-> "null"]

JStr(s) == [t |-> "str", v |-> s]

JNum(n) == [t |-> "num", v |-> n]

JBool(b) == [t |-> "bool", v |-> b]

JArr(s) == [t |-> "arr", v |-> s]

JObj(f) == [t |-> "obj", v |-> f]

\* raw bytes: a JSON text, or bytes that are not JSON ("invalid", "empty")
Bytes(kind, doc) == [kind |-> kind, doc |-> doc]

NoBytes == Bytes("none", JNull)

----------------------------------------------------------------------------
(* Go types of the wire shapes, with their json tags *)

TString == [k |-> "string"]

TInt == [k |-> "int"]

TBool == [k |-> "bool"]

TTime == [k |-> "time"]

TIface == [k |-> "iface"]

TSlice(e) == [k |-> "slice", elem |-> e]

TStruct(fs) == [k |-> "struct", fields |-> fs]

Field(name, key, type) == [name |-> name, key |-> key, type |-> type]

NameT ==
    TStruct(<< Field("FamilyName", "familyName", TString),
               Field("GivenName", "givenName", TString) >>)

EmailT ==
    TStruct(<< Field("Primary", "primary", TBool),
               Field("Value", "value", TString) >>)

MetaT ==
    TStruct(<< Field("ResourceType", "resourceType", TString),
               Field("Created", "created", TTime),
               Field("LastModified", "lastModified", TTime) >>)

RefT ==
    TStruct(<< Field("Type", "type", TString),
               Field("Value", "value", TString) >>)

UserT ==
    TStruct(<< Field("Schemas", "schemas", TSlice(TString)),
               Field("UserName", "userName", TString),
               Field("Name", "name", NameT),
               Field("Emails", "emails", TSlice(EmailT)),
               Field("Active", "active", TBool),
               Field("Timezone", "timezone", TString) >>)

UserResponseT ==
    TStruct(<< Field("Schemas", "schemas", TSlice(TString)),
               Field("ID", "id", TString),
               Field("ExternalID", "externalId", TString),
               Field("UserName", "userName", TString),
               Field("Name", "name", NameT),
               Field("Emails", "emails", TSlice(EmailT)),
               Field("Timezone", "timezone", TString),
               Field("Active", "active", TBool),
               Field("Meta", "meta", MetaT),
               Field("Groups", "groups", TSlice(TIface)) >>)

\* an error shape whose status is a number
UserErrorResponseT_intstatus ==
    TStruct(<< Field("Schemas", "schemas", TSlice(TString)),
               Field("ScimType", "scimType", TString),
               Field("Detail", "detail", TString),
               Field("Status", "status", TInt) >>)

UserErrorResponseT ==
    TStruct(<< Field("Schemas", "schemas", TSlice(TString)),
               Field("ScimType", "scimType", TString),
               Field("Detail", "detail", TString),
               Field("Status", "status", TString) >>)

UsersResourceT ==
    TStruct(<< Field("Schemas", "schemas", TSlice(TString)),
               Field("ID", "id", TString),
               Field("ExternalID", "externalId", TIface),
               Field("UserName", "userName", TString),
               Field("Name", "name", NameT),
               Field("Emails", "emails", TSlice(EmailT)),
               Field("Timezone", "timezone", TString),
               Field("Active", "active", TBool),
               Field("Meta", "meta", MetaT),
               Field("Groups", "groups", TSlice(RefT)) >>)

UsersResponseT ==
    TStruct(<< Field("TotalResults", "totalResults", TInt),
               Field("Schemas", "schemas", TSlice(TString)),
               Field("Resources", "Resources", TSlice(UsersResourceT)) >>)

NrUserTypeT ==
    TStruct(<< Field("NrUserType", "nrUserType", TString) >>)

UserTypeBodyT ==
    TStruct(<< Field("Schemas", "schemas", TSlice(TString)),
               Field("UrnIetfParamsScimSchemasExtensionNewrelic21User",
                     ExtensionKeyURN, NrUserTypeT) >>)

GroupT ==
    TStruct(<< Field("Schemas", "schemas", TSlice(TString)),
               Field("DisplayName", "displayName", TString) >>)

GroupResponseT ==
    TStruct(<< Field("Schemas", "schemas", TSlice(TString)),
               Field("ID", "id", TString),
               Field("DisplayName", "displayName", TString),
               Field("Meta", "meta", MetaT),
               Field("Members", "members", TSlice(TIface)) >>)

GroupErrorResponseT ==
    TStruct(<< Field("Schemas", "schemas", TSlice(TString)),
               Field("ScimType", "scimType", TString),
               Field("Detail", "detail", TString),
               Field("Status", "status", TString) >>)

GroupsResourceT ==
    TStruct(<< Field("Schemas", "schemas", TSlice(TString)),
               Field("ID", "id", TString),
               Field("DisplayName", "displayName", TString),
               Field("Meta", "meta", MetaT),
               Field("Members", "members", TSlice(RefT)) >>)

GroupsResponseT ==
    TStruct(<< Field("TotalResults", "totalResults", TInt),
               Field("Schemas", "schemas", TSlice(TString)),
               Field("Resources", "Resources", TSlice(GroupsResourceT)) >>)

PatchValueT ==
    TStruct(<< Field("Value", "value", TString) >>)

PatchOperationT ==
    TStruct(<< Field("Op", "op", TString),
               Field("Path", "path", TString),
               Field("Value", "value", TSlice(PatchValueT)) >>)

UpdateGroupT ==
    TStruct(<< Field("Schemas", "schemas", TSlice(TString)),
               Field("Operations", "Operations", TSlice(PatchOperationT)) >>)

----------------------------------------------------------------------------
(* encoding/json *)

FieldNames(T) == { T.fields[i].name : i \in DOMAIN T.fields }

FieldOf(T, n) == T.fields[CHOOSE i \in DOMAIN T.fields : T.fields[i].name = n]

ZeroTime == "0001-01-01T00:00:00Z"

RECURSIVE ZeroValue(_)
\* the zero value of a Go type
ZeroValue(T) ==
    CASE T.k = "string" -> ""
      [] T.k = "int"    -> 0
      [] T.k = "bool"   -> FALSE
      [] T.k = "time"   -> ZeroTime
      [] T.k = "iface"  -> JNull
      [] T.k = "slice"  -> << >>
      [] T.k = "struct" -> [n \in FieldNames(T) |-> ZeroValue(FieldOf(T, n).type)]

RECURSIVE MarshalValue(_, _)
\* json.Marshal of a Go value of type T: the json tags name the keys, every
\* field is written, a nil slice is written as null
MarshalValue(x, T) ==
    CASE T.k = "string" -> JStr(x)
      [] T.k = "int"    -> JNum(x)
      [] T.k = "bool"   -> JBool(x)
      [] T.k = "time"   -> JStr(x)
      [] T.k = "iface"  -> x
      [] T.k = "slice"  -> IF Len(x) = 0 THEN JNull
                           ELSE JArr([i \in DOMAIN x |-> MarshalValue(x[i], T.elem)])
      [] T.k = "struct" ->
            JObj([key \in { T.fields[i].key : i \in DOMAIN T.fields } |->
                    LET f == T.fields[CHOOSE i \in DOMAIN T.fields : T.fields[i].key = key]
                    IN  MarshalValue(x[f.name], f.type)])

Marshal(x, T) == Bytes("json", MarshalValue(x, T))

RECURSIVE DecodeValue(_, _, _)
\* the decoder's store of the JSON value j into a Go value of type T that
\* currently holds cur.  A JSON value of the wrong type leaves the Go value
\* as it is, records an UnmarshalTypeError (bad) and decoding goes on.
DecodeValue(j, T, cur) ==
    IF j.t = "null"
    THEN [val |-> IF T.k \in {"slice", "iface"} THEN ZeroValue(T) ELSE cur,
          bad |-> FALSE]
    ELSE
    CASE T.k = "string" -> IF j.t = "str" THEN [val |-> j.v, bad |-> FALSE]
                           ELSE [val |-> cur, bad |-> TRUE]
      [] T.k = "int"    -> IF j.t = "num" THEN [val |-> j.v, bad |-> FALSE]
                           ELSE [val |-> cur, bad |-> TRUE]
      [] T.k = "bool"   -> IF j.t = "bool" THEN [val |-> j.v, bad |-> FALSE]
                           ELSE [val |-> cur, bad |-> TRUE]
      [] T.k = "time"   -> IF j.t = "str" THEN [val |-> j.v, bad |-> FALSE]
                           ELSE [val |-> cur, bad |-> TRUE]
      [] T.k = "iface"  -> [val |-> j, bad |-> FALSE]
      [] T.k = "slice"  ->
            IF j.t = "arr"
            THEN LET el(i) == DecodeValue(j.v[i], T.elem, ZeroValue(T.elem))
                 IN  [val |-> [i \in DOMAIN j.v |-> el(i).val],
                      bad |-> \E i \in DOMAIN j.v : el(i).bad]
            ELSE [val |-> cur, bad |-> TRUE]
      [] T.k = "struct" ->
            IF j.t = "obj"
            THEN LET fl(n) == LET f == FieldOf(T, n)
                              IN  IF f.key \in DOMAIN j.v
                                  THEN DecodeValue(j.v[f.key], f.type, cur[n])
                                  ELSE [val |-> cur[n], bad |-> FALSE]
                 IN  [val |-> [n \in FieldNames(T) |-> fl(n).val],
                      bad |-> \E n \in FieldNames(T) : fl(n).bad]
            ELSE [val |-> cur, bad |-> TRUE]

\* json.Unmarshal(data, &v) where v has type T and holds cur
Unmarshal(data, T, cur) ==
    IF data.kind # "json"
    THEN [val |-> cur, err |-> [kind |-> "SyntaxError"]]
    ELSE LET r == DecodeValue(data.doc, T, cur)
         IN  [val |-> r.val,
              err |-> IF r.bad THEN [kind |-> "UnmarshalTypeError"] ELSE Nil]

----------------------------------------------------------------------------
(* Resource codec: fill_defaults *)

\* fill_defaults that sets the timezone whatever the caller supplied
User_fill_defaults_overwrite(u) ==
    [u EXCEPT !.Schemas  = IF Len(u.Schemas) = 0 THEN <<CoreUserURN>> ELSE @,
              !.Timezone = DefaultTimezone]

\* func (u *User) fill_defaults()
User_fill_defaults(u) ==
    [u EXCEPT !.Schemas  = IF Len(u.Schemas) = 0 THEN <<CoreUserURN>> ELSE @,
              !.Timezone = IF u.Timezone = "" THEN DefaultTimezone ELSE @]

\* func (u *UserTypeBody) fill_defaults()
UserTypeBody_fill_defaults(u) ==
    [u EXCEPT !.Schemas = IF Len(u.Schemas) = 0
                          THEN <<CoreUserURN, ExtensionSchemaURN>> ELSE @]

\* fill_defaults that adds the core Group schema to a list that lacks it
Group_fill_defaults_append(g) ==
    [g EXCEPT !.Schemas = IF \E i \in DOMAIN g.Schemas : g.Schemas[i] = CoreGroupURN
                          THEN @ ELSE Append(@, CoreGroupURN)]

\* func (g *Group) fill_defaults()
Group_fill_defaults(g) ==
    [g EXCEPT !.Schemas = IF Len(g.Schemas) = 0 THEN <<CoreGroupURN>> ELSE @]

\* fill_defaults that fills nothing
UpdateGroup_fill_defaults_skip(ug) == ug

\* func (ug *UpdateGroup) fill_defaults()
UpdateGroup_fill_defaults(ug) ==
    [ug EXCEPT !.Schemas = IF Len(ug.Schemas) = 0 THEN <<PatchOpURN>> ELSE @]

\* type UserType int64; const ( Full UserType = iota; Core; Basic )
Full == 0

Core == 1

Basic == 2

\* String with the strings of Core and Basic exchanged
UserType_String_swapped(u) ==
    CASE u = Full  -> "Full User"
      [] u = Core  -> "Basic User"
      [] u = Basic -> "Core User"
      [] OTHER     -> "unknown"

\* func (u UserType) String() string
UserType_String(u) ==
    CASE u = Full  -> "Full User"
      [] u = Core  -> "Core User"
      [] u = Basic -> "Basic User"
      [] OTHER     -> "unknown"

----------------------------------------------------------------------------
(* net/http and net/url, as far as the client uses them.  Header names and *)
(* the strings that are URL-escaped are sequences of one-character strings *)

LowerLetters ==
    << "a","b","c","d","e","f","g","h","i","j","k","l","m",
       "n","o","p","q","r","s","t","u","v","w","x","y","z" >>

UpperLetters ==
    << "A","B","C","D","E","F","G","H","I","J","K","L","M",
       "N","O","P","Q","R","S","T","U","V","W","X","Y","Z" >>

ToUpper(c) ==
    IF \E i \in DOMAIN LowerLetters : LowerLetters[i] = c
    THEN UpperLetters[CHOOSE i \in DOMAIN LowerLetters : LowerLetters[i] = c]
    ELSE c

ToLower(c) ==
    IF \E i \in DOMAIN UpperLetters : UpperLetters[i] = c
    THEN LowerLetters[CHOOSE i \in DOMAIN UpperLetters : UpperLetters[i] = c]
    ELSE c

\* textproto.CanonicalMIMEHeaderKey: the first letter and every letter after
\* a hyphen in upper case, the others in lower case
CanonicalMIMEHeaderKey(s) ==
    [i \in DOMAIN s |-> IF i = 1 \/ s[i - 1] = "-" THEN ToUpper(s[i]) ELSE ToLower(s[i])]

\* http.Header.Set(key, value)
HeaderSet(h, key, value) ==
    LET k == CanonicalMIMEHeaderKey(key)
    IN  [x \in DOMAIN h \cup {k} |-> IF x = k THEN value ELSE h[x]]

NoHeader == [x \in {} |-> ""]

Digits == {"0","1","2","3","4","5","6","7","8","9"}

\* url.QueryEscape of one character: unreserved characters stay, a space
\* becomes +, any other character becomes %XX
EscapeChar(c) ==
    CASE ToLower(c) \in { LowerLetters[i] : i \in DOMAIN LowerLetters } -> <<c>>
      [] c \in Digits \cup {"-", "_", ".", "~"} -> <<c>>
      [] c = " "  -> <<"+">>
      [] c = "\"" -> <<"%", "2", "2">>
      [] c = "%"  -> <<"%", "2", "5">>
      [] c = "&"  -> <<"%", "2", "6">>
      [] c = "+"  -> <<"%", "2", "B">>
      [] c = "="  -> <<"%", "3", "D">>

\* an escape that leaves every character as it is
QueryEscape_raw(s) == s

RECURSIVE QueryEscape(_)
QueryEscape(s) ==
    IF s = << >> THEN << >> ELSE EscapeChar(Head(s)) \o QueryEscape(Tail(s))

\* url.Values{key: {value}}.Encode() for one key with one value
ValuesEncode(key, value) == QueryEscape(key) \o <<"=">> \o QueryEscape(value)

\* ids whose text is not a valid URL path: an invalid percent-escape
BadIDs == {"%zz"}

\* url.Parse fails on the URLs that end in such an id
URLParseFails(rawurl) ==
    \E p \in {userPath, groupPath}, id \in BadIDs :
        rawurl = BaseUrlLiteral \o p \o "/" \o id

\* the method tokens the operations pass are all valid HTTP tokens
validMethod(m) == m \in {"GET", "Get", "POST", "PUT", "PATCH", "DELETE"}

NoReq == [method |-> "", url |-> "", rawQuery |-> << >>, header |-> NoHeader, body |-> NoBytes]

\* NewRequest that does not report the failure of url.Parse
NewRequest_unparsed(method, rawurl, b) ==
    [req |-> [method |-> method, url |-> rawurl, rawQuery |-> << >>,
              header |-> NoHeader, body |-> b],
     err |-> Nil]

\* http.NewRequest(method, url, body)
NewRequest(method, rawurl, b) ==
    IF ~validMethod(method)
    THEN [req |-> NoReq, err |-> [kind |-> "invalid method"]]
    ELSE IF URLParseFails(rawurl)
    THEN [req |-> NoReq, err |-> [kind |-> "url parse"]]
    ELSE [req |-> [method |-> method, url |-> rawurl, rawQuery |-> << >>,
                   header |-> NoHeader, body |-> b],
          err |-> Nil]

----------------------------------------------------------------------------
(* Client *)

\* func NewClient(apiToken string) *Client
NewClient(apiToken) ==
    [BaseUrl    |-> BaseUrlLiteral,
     ApiToken   |-> apiToken,
     HttpClient |-> [Timeout |-> TimeoutSeconds]]

AuthorizationKey == <<"A","u","t","h","o","r","i","z","a","t","i","o","n">>

ContentTypeKey == <<"c","o","n","t","e","n","t","-","t","y","p","e">>

\* doRequest that sets the scheme without the token
doRequestHeaders_notoken(c, r) ==
    [r EXCEPT !.header =
        HeaderSet(HeaderSet(r.header, AuthorizationKey, "Bearer "),
                  ContentTypeKey, "application/json")]

\* doRequest, lines 50-51: the two headers set on the request
doRequestHeaders(c, r) ==
    [r EXCEPT !.header =
        HeaderSet(HeaderSet(r.header, AuthorizationKey, "Bearer " \o c.ApiToken),
                  ContentTypeKey, "application/json")]

\* doRequest whose status check has no upper limit
doRequest_nolimit(r) ==
    IF r.ReadErr
    THEN [body |-> NoBytes, err |-> [kind |-> "read"]]
    ELSE IF ~(r.StatusCode >= 200)
    THEN [body |-> NoBytes, err |-> StatusError(r.Body, r.StatusCode)]
    ELSE [body |-> r.Body, err |-> Nil]

\* doRequest whose status check excludes 200
doRequest_strict(r) ==
    IF r.ReadErr
    THEN [body |-> NoBytes, err |-> [kind |-> "read"]]
    ELSE IF ~((r.StatusCode > 200) /\ (r.StatusCode <= 299))
    THEN [body |-> NoBytes, err |-> StatusError(r.Body, r.StatusCode)]
    ELSE [body |-> r.Body, err |-> Nil]

\* doRequest, lines 58-67: the body is read, then the status code decides
doRequest(r) ==
    IF r.ReadErr
    THEN [body |-> NoBytes, err |-> [kind |-> "read"]]
    ELSE IF ~((r.StatusCode >= 200) /\ (r.StatusCode <= 299))
    THEN [body |-> NoBytes, err |-> StatusError(r.Body, r.StatusCode)]
    ELSE [body |-> r.Body, err |-> Nil]

----------------------------------------------------------------------------
(* Inputs of the callers and outcomes of the network *)

Tokens == {"tok-A", "tok-B"}

UserIDs == {"u-123"} \cup BadIDs

GroupIDs == {"g-456"} \cup BadIDs

CallerURNs == {CoreUserURN, "urn:example:custom"}

SchemaLists == UNION { [1..n -> CallerURNs] : n \in 0..MaxSchemas }

Users ==
    [Schemas  : SchemaLists,
     UserName : {"john.doe@example.com"},
     Name     : {[FamilyName |-> "Doe", GivenName |-> "John"]},
     Emails   : {<< [Primary |-> TRUE, Value |-> "john.doe@example.com"] >>},
     Active   : BOOLEAN,
     Timezone : {"", "UTC"}]

UserTypes == {Full, Core, Basic}

UserNames == { <<"j","d","o","e">>, <<"a","+","b"," ","c">> }

GroupNames == { <<"A","d","m","i","n","s">>, <<"x","\"","y">> }

DisplayNames == {"Admins", "Ops"}

Operations == {"Add", "Remove", "Replace"}

StatusCodes == {199, 200, 299, 300}

\* the object with the given set of <<key, value>> members
ObjOf(pairs) ==
    JObj([key \in { p[1] : p \in pairs } |-> (CHOOSE p \in pairs : p[1] = key)[2]])

SchemasMembers ==
    { {},
      { <<"schemas", JArr(<< >>)>> },
      { <<"schemas", JArr(<< JStr(ErrorURN) >>)>> },
      { <<"schemas", JArr(<< JStr(CoreUserURN) >>)>> },
      { <<"schemas", JArr(<< JStr(CoreUserURN), JStr(ErrorURN) >>)>> },
      { <<"schemas", JStr(ErrorURN)>> } }

StatusMembers ==
    { {},
      { <<"status", JStr("409")>>, <<"detail", JStr("conflict")>>,
        <<"scimType", JStr("uniqueness")>> },
      { <<"status", JNum(409)>>, <<"detail", JStr("conflict")>> } }

OtherMembers ==
    { {},
      { <<"id", JStr("u-123")>>, <<"displayName", JStr("Admins")>> },
      { <<"id", JNum(5)>> },
      { <<"totalResults", JNum(1)>> },
      { <<"totalResults", JStr("1")>> } }

\* a single group resource, as the service answers for Groups/{id}
GroupResourceBody ==
    Bytes("json",
          ObjOf({ <<"schemas", JArr(<< JStr(CoreGroupURN) >>)>>,
                  <<"id", JStr("g-456")>>,
                  <<"displayName", JStr("Admins")>>,
                  <<"meta", JObj([resourceType |-> JStr("Group"),
                                  created      |-> JStr("2022-12-01T10:00:00Z"),
                                  lastModified |-> JStr("2022-12-02T10:00:00Z")])>>,
                  <<"members", JArr(<< JObj([type |-> JStr("User"),
                                             value |-> JStr("u-123")]) >>)>> }))

Bodies ==
    { Bytes("invalid", JNull), Bytes("empty", JNull),
      Bytes("json", JNull), Bytes("json", JArr(<< >>)), GroupResourceBody }
    \cup { Bytes("json", ObjOf(s \cup t \cup o)) :
             s \in SchemasMembers, t \in StatusMembers, o \in OtherMembers }

----------------------------------------------------------------------------
(* The operations *)

DeleteOps == {"DeleteUser", "DeleteGroup"}

\* the type of the first named result of each operation
SuccessType(o) ==
    CASE o = "UserList" -> UsersResponseT
      [] o \in {"GetUserByID", "GetUserByName", "CreateUser", "UpdateUser",
                "ChangeUserType"} -> UserResponseT
      [] o \in {"CreateGroup", "UpdateGroup", "GroupMemberOps", "AddUserToGroup",
                "RemoveUserToGroup"} -> GroupResponseT
      [] o \in {"GroupList", "GetGroupByID", "GetGroupByName"} -> GroupsResponseT

\* the type of the second named result of each operation
ErrorType(o) ==
    IF o \in {"UserList", "GetUserByID", "GetUserByName", "CreateUser", "UpdateUser",
              "ChangeUserType"}
    THEN UserErrorResponseT ELSE GroupErrorResponseT

NoValue == [none |-> TRUE]

NoResp == [StatusCode |-> 0, Body |-> NoBytes, ReadErr |-> FALSE]

NoArgs == [none |-> TRUE]

NoCodec == [type |-> "none", hist |-> << >>]

NoParked == [none |-> TRUE]

NoUser == [none |-> TRUE]

Init ==
    /\ client \in { NewClient(t) : t \in Tokens }
    /\ pc = "idle"
    /\ op = "none"
    /\ args = NoArgs
    /\ req = NoReq
    /\ sent = << >>
    /\ resp = NoResp
    /\ body = NoBytes
    /\ steps = << >>
    /\ okResp = NoValue
    /\ errResp = NoValue
    /\ err = Nil
    /\ codec = NoCodec
    /\ parked = NoParked
    /\ callerUser = NoUser

\* entry of an operation up to and including its check of http.NewRequest's
\* error; r is the result of http.NewRequest, q the RawQuery set afterwards
Begin(name, a, r, q) ==
    /\ pc = "idle"
    /\ op' = name
    /\ args' = a
    /\ sent' = << >>
    /\ resp' = NoResp
    /\ body' = NoBytes
    /\ steps' = <<"build">>
    /\ okResp' = IF name \in DeleteOps THEN NoValue ELSE ZeroValue(SuccessType(name))
    /\ errResp' = IF name \in DeleteOps THEN NoValue ELSE ZeroValue(ErrorType(name))
    /\ err' = r.err
    /\ IF r.err # Nil
       THEN /\ req' = NoReq
            /\ pc' = "returned"
       ELSE /\ req' = [r.req EXCEPT !.rawQuery = q]
            /\ pc' = "built"
    /\ "user" \notin DOMAIN a => UNCHANGED callerUser
    /\ UNCHANGED <<client, codec, parked>>

UserList ==
    LET fullUrl == client.BaseUrl \o userPath
    IN  Begin("UserList", NoArgs, NewRequest("Get", fullUrl, NoBytes), << >>)

GetUserByID ==
    \E userID \in UserIDs :
        LET fullUrl == client.BaseUrl \o userPath \o "/" \o userID
        IN  Begin("GetUserByID", [userID |-> userID],
                  NewRequest("GET", fullUrl, NoBytes), << >>)

FilterKey == <<"f","i","l","t","e","r">>

GetUserByName ==
    \E userName \in UserNames :
        LET fullUrl == client.BaseUrl \o userPath
            filter  == <<"u","s","e","r","N","a","m","e"," ","e","q"," ","\"">>
                       \o userName \o <<"\"">>
        IN  Begin("GetUserByName", [userName |-> userName],
                  NewRequest("GET", fullUrl, NoBytes), ValuesEncode(FilterKey, filter))

\* CreateUser whose parameter is the caller's User itself
CreateUser_byref ==
    \E user \in Users :
        LET fullUrl  == client.BaseUrl \o userPath
            postBody == Marshal(User_fill_defaults(user), UserT)
        IN  /\ Begin("CreateUser", [user |-> user],
                     NewRequest("POST", fullUrl, postBody), << >>)
            /\ callerUser' = User_fill_defaults(user)

\* the parameter user is a copy of the caller's User: fill_defaults writes to
\* the copy
CreateUser ==
    \E user \in Users :
        LET fullUrl  == client.BaseUrl \o userPath
            postBody == Marshal(User_fill_defaults(user), UserT)
        IN  /\ Begin("CreateUser", [user |-> user],
                     NewRequest("POST", fullUrl, postBody), << >>)
            /\ callerUser' = user

UpdateUser ==
    \E userID \in UserIDs, user \in Users :
        LET fullUrl  == client.BaseUrl \o userPath \o "/" \o userID
            postBody == Marshal(User_fill_defaults(user), UserT)
        IN  /\ Begin("UpdateUser", [userID |-> userID, user |-> user],
                     NewRequest("PUT", fullUrl, postBody), << >>)
            /\ callerUser' = user

DeleteUser ==
    \E userID \in UserIDs :
        LET fullUrl == client.BaseUrl \o userPath \o "/" \o userID
        IN  Begin("DeleteUser", [userID |-> userID],
                  NewRequest("DELETE", fullUrl, NoBytes), << >>)

ChangeUserType ==
    \E userID \in UserIDs, userType \in UserTypes :
        LET fullUrl      == client.BaseUrl \o userPath \o "/" \o userID
            userTypeBody ==
                [Schemas |-> << >>,
                 UrnIetfParamsScimSchemasExtensionNewrelic21User |->
                     [NrUserType |-> UserType_String(userType)]]
            putBody      == Marshal(UserTypeBody_fill_defaults(userTypeBody), UserTypeBodyT)
        IN  Begin("ChangeUserType", [userID |-> userID, userType |-> userType],
                  NewRequest("PUT", fullUrl, putBody), << >>)

CreateGroup ==
    \E groupName \in DisplayNames :
        LET fullUrl  == client.BaseUrl \o groupPath
            group    == [Schemas |-> << >>, DisplayName |-> groupName]
            postBody == Marshal(Group_fill_defaults(group), GroupT)
        IN  Begin("CreateGroup", [groupName |-> groupName],
                  NewRequest("POST", fullUrl, postBody), << >>)

UpdateGroup ==
    \E groupName \in DisplayNames :
        LET fullUrl  == client.BaseUrl \o groupPath
            group    == [Schemas |-> << >>, DisplayName |-> groupName]
            postBody == Marshal(Group_fill_defaults(group), GroupT)
        IN  Begin("UpdateGroup", [groupName |-> groupName],
                  NewRequest("PUT", fullUrl, postBody), << >>)

GroupList ==
    LET fullUrl == client.BaseUrl \o groupPath
    IN  Begin("GroupList", NoArgs, NewRequest("Get", fullUrl, NoBytes), << >>)

GetGroupByID ==
    \E groupID \in GroupIDs :
        LET fullUrl == client.BaseUrl \o groupPath \o "/" \o groupID
        IN  Begin("GetGroupByID", [groupID |-> groupID],
                  NewRequest("GET", fullUrl, NoBytes), << >>)

GetGroupByName ==
    \E groupName \in GroupNames :
        LET fullUrl == client.BaseUrl \o groupPath
            filter  == <<"d","i","s","p","l","a","y","N","a","m","e"," ","e","q"," ","\"">>
                       \o groupName \o <<"\"">>
        IN  Begin("GetGroupByName", [groupName |-> groupName],
                  NewRequest("GET", fullUrl, NoBytes), ValuesEncode(FilterKey, filter))

\* the body of GroupMemberOps, entered under the name of the public
\* operation the caller invoked
GroupMemberOpsCall(name, groupID, userID, operation) ==
    LET fullUrl     == client.BaseUrl \o groupPath \o "/" \o groupID
        updateGroup ==
            [Schemas    |-> << >>,
             Operations |-> << [Op |-> operation, Path |-> "members",
                                Value |-> << [Value |-> userID] >>] >>]
        putBody     == Marshal(UpdateGroup_fill_defaults(updateGroup), UpdateGroupT)
    IN  Begin(name, [groupID |-> groupID, userID |-> userID, operation |-> operation],
              NewRequest("PATCH", fullUrl, putBody), << >>)

GroupMemberOps ==
    \E groupID \in GroupIDs, userID \in UserIDs, operation \in Operations :
        GroupMemberOpsCall("GroupMemberOps", groupID, userID, operation)

AddUserToGroup ==
    \E groupID \in GroupIDs, userID \in UserIDs :
        GroupMemberOpsCall("AddUserToGroup", groupID, userID, "Add")

\* RemoveUserToGroup that passes the verb of AddUserToGroup
RemoveUserToGroup_add ==
    \E groupID \in GroupIDs, userID \in UserIDs :
        GroupMemberOpsCall("RemoveUserToGroup", groupID, userID, "Add")

RemoveUserToGroup ==
    \E groupID \in GroupIDs, userID \in UserIDs :
        GroupMemberOpsCall("RemoveUserToGroup", groupID, userID, "Remove")

DeleteGroup ==
    \E groupID \in GroupIDs :
        LET fullUrl == client.BaseUrl \o groupPath \o "/" \o groupID
        IN  Begin("DeleteGroup", [groupID |-> groupID],
                  NewRequest("DELETE", fullUrl, NoBytes), << >>)

----------------------------------------------------------------------------
(* The steps every operation shares *)

\* a header step that keeps the prefixed token in the client
SetHeaders_storetoken ==
    /\ pc = "built"
    /\ client' = [client EXCEPT !.ApiToken = "Bearer " \o client.ApiToken]
    /\ req' = doRequestHeaders(client', req)
    /\ pc' = "ready"
    /\ steps' = Append(steps, "headers")
    /\ UNCHANGED <<op, args, sent, resp, body, okResp, errResp, err, codec, parked,
                 callerUser>>

\* doRequest, lines 50-51
SetHeaders ==
    /\ pc = "built"
    /\ req' = doRequestHeaders(client, req)
    /\ pc' = "ready"
    /\ steps' = Append(steps, "headers")
    /\ UNCHANGED <<client, op, args, sent, resp, body, okResp, errResp, err, codec, parked,
                 callerUser>>

\* a Do step after which a failed exchange is tried again
Do_retry ==
    /\ pc = "ready"
    /\ sent' = Append(sent, req)
    /\ steps' = Append(steps, "send")
    /\ \/ /\ err' = [kind |-> "net"]
          /\ pc' = "ready"
          /\ resp' = resp
       \/ /\ \E s \in StatusCodes, b \in Bodies, e \in BOOLEAN :
                resp' = [StatusCode |-> s, Body |-> b, ReadErr |-> e]
          /\ pc' = "responded"
          /\ err' = err
    /\ UNCHANGED <<client, op, args, req, body, okResp, errResp, codec, parked,
                 callerUser>>

\* doRequest, lines 53-56: c.HttpClient.Do(req) fails, or answers with some
\* status code and a body stream that holds some bytes and may fail while
\* it is read; on failure the operation returns the error
Do ==
    /\ pc = "ready"
    /\ sent' = Append(sent, req)
    /\ steps' = Append(steps, "send")
    /\ \/ /\ err' = [kind |-> "net"]
          /\ pc' = "returned"
          /\ resp' = resp
       \/ /\ \E s \in StatusCodes, b \in Bodies, e \in BOOLEAN :
                resp' = [StatusCode |-> s, Body |-> b, ReadErr |-> e]
          /\ pc' = "responded"
          /\ err' = err
    /\ UNCHANGED <<client, op, args, req, body, okResp, errResp, codec, parked,
                 callerUser>>

\* a read step that takes the bytes from a buffer another call has filled
ReadBody_sharedbuf ==
    /\ pc = "responded"
    /\ LET r == doRequest(resp)
       IN  /\ body' = IF r.err = Nil /\ parked # NoParked /\ parked.body # NoBytes
                      THEN parked.body ELSE r.body
           /\ err' = r.err
           /\ pc' = IF r.err # Nil THEN "returned" ELSE "transported"
    /\ steps' = Append(steps, "read")
    /\ UNCHANGED <<client, op, args, req, sent, resp, okResp, errResp, codec, parked,
                 callerUser>>

\* doRequest, lines 58-67, and the operation's check of its error
ReadBody ==
    /\ pc = "responded"
    /\ LET r == doRequest(resp)
       IN  /\ body' = r.body
           /\ err' = r.err
           /\ pc' = IF r.err # Nil THEN "returned" ELSE "transported"
    /\ steps' = Append(steps, "read")
    /\ UNCHANGED <<client, op, args, req, sent, resp, okResp, errResp, codec, parked,
                 callerUser>>

\* DeleteUser and DeleteGroup: the body is dropped and nil is returned
ReturnDeleted ==
    /\ pc = "transported"
    /\ op \in DeleteOps
    /\ err' = Nil
    /\ pc' = "returned"
    /\ UNCHANGED <<client, op, args, req, sent, resp, body, steps, okResp, errResp, codec, parked,
                 callerUser>>

\* a decode step that goes on to the sentinel check after a decode error
UnmarshalSuccess_continue ==
    /\ pc = "transported"
    /\ op \notin DeleteOps
    /\ LET r == Unmarshal(body, SuccessType(op), okResp)
       IN  /\ okResp' = r.val
           /\ err' = r.err
           /\ pc' = "parsed"
    /\ steps' = Append(steps, "decode")
    /\ UNCHANGED <<client, op, args, req, sent, resp, body, errResp, codec, parked,
                 callerUser>>

\* json.Unmarshal(resp, &success shape) and the check of its error
UnmarshalSuccess ==
    /\ pc = "transported"
    /\ op \notin DeleteOps
    /\ LET r == Unmarshal(body, SuccessType(op), okResp)
       IN  /\ okResp' = r.val
           /\ err' = r.err
           /\ pc' = IF r.err # Nil THEN "returned" ELSE "parsed"
    /\ steps' = Append(steps, "decode")
    /\ UNCHANGED <<client, op, args, req, sent, resp, body, errResp, codec, parked,
                 callerUser>>

\* a sentinel test that looks at every entry of Schemas
IsErrorSentinel_any(schemas) == \E i \in DOMAIN schemas : schemas[i] = ErrorURN

\* success.Schemas[0] == "urn:ietf:params:scim:api:messages:2.0:Error",
\* for a Schemas that has a first entry
IsErrorSentinel(schemas) == schemas[1] = ErrorURN

\* if success.Schemas[0] == "...:Error" { json.Unmarshal(resp, &error shape) }
\* and the return that follows.  Indexing an empty Schemas is a run-time
\* panic (index out of range).
SentinelCheck ==
    /\ pc = "parsed"
    /\ steps' = Append(steps, "sentinel")
    /\ IF Len(okResp.Schemas) = 0
       THEN /\ pc' = "panicked"
            /\ UNCHANGED <<errResp, err>>
       ELSE IF IsErrorSentinel(okResp.Schemas)
       THEN LET r == Unmarshal(body, ErrorType(op), errResp)
            IN  /\ errResp' = r.val
                /\ err' = r.err
                /\ pc' = "returned"
       ELSE /\ err' = Nil
            /\ pc' = "returned"
            /\ UNCHANGED errResp
    /\ UNCHANGED <<client, op, args, req, sent, resp, body, okResp, codec, parked,
                 callerUser>>

\* the caller has its results and may call again
NextCall ==
    /\ pc = "returned"
    /\ pc' = "idle"
    /\ op' = "none"
    /\ args' = NoArgs
    /\ req' = NoReq
    /\ sent' = << >>
    /\ resp' = NoResp
    /\ body' = NoBytes
    /\ steps' = << >>
    /\ okResp' = NoValue
    /\ errResp' = NoValue
    /\ err' = Nil
    /\ callerUser' = NoUser
    /\ UNCHANGED <<client, codec, parked>>

Next ==
    \/ UserList \/ GetUserByID \/ GetUserByName \/ CreateUser \/ UpdateUser
    \/ DeleteUser \/ ChangeUserType
    \/ CreateGroup \/ UpdateGroup \/ GroupList \/ GetGroupByID \/ GetGroupByName
    \/ GroupMemberOps \/ AddUserToGroup \/ RemoveUserToGroup \/ DeleteGroup
    \/ SetHeaders \/ Do \/ ReadBody \/ ReturnDeleted \/ UnmarshalSuccess
    \/ SentinelCheck \/ NextCall

Spec == Init /\ [][Next]_vars

----------------------------------------------------------------------------
(* The codec on its own: fill_defaults applied again and again to a value *)

CodecInputs ==
    { [type |-> "User", hist |-> <<u>>] : u \in Users }
    \cup { [type |-> "Group", hist |-> << [Schemas |-> l, DisplayName |-> n] >>] :
             l \in SchemaLists, n \in DisplayNames }
    \cup { [type |-> "UserTypeBody",
            hist |-> << [Schemas |-> l,
                         UrnIetfParamsScimSchemasExtensionNewrelic21User |->
                             [NrUserType |-> UserType_String(t)]] >>] :
             l \in SchemaLists, t \in UserTypes }
    \cup { [type |-> "UpdateGroup",
            hist |-> << [Schemas |-> l,
                         Operations |-> << [Op |-> o, Path |-> "members",
                                            Value |-> << [Value |-> "u-123"] >>] >>] >>] :
             l \in SchemaLists, o \in Operations }

InitCodec ==
    /\ client = NewClient("tok-A")
    /\ pc = "idle"
    /\ op = "none"
    /\ args = NoArgs
    /\ req = NoReq
    /\ sent = << >>
    /\ resp = NoResp
    /\ body = NoBytes
    /\ steps = << >>
    /\ okResp = NoValue
    /\ errResp = NoValue
    /\ err = Nil
    /\ codec \in CodecInputs
    /\ parked = NoParked
    /\ callerUser = NoUser

Last(h) == h[Len(h)]

\* one more application of the type's fill_defaults to the value
Fill(type, filled) ==
    /\ codec.type = type
    /\ Len(codec.hist) <= MaxFills
    /\ codec' = [codec EXCEPT !.hist = Append(@, filled)]
    /\ UNCHANGED <<client, pc, op, args, req, sent, resp, body, steps, okResp, errResp, err,
                   parked, callerUser>>

FillUser == Fill("User", User_fill_defaults(Last(codec.hist)))

FillGroup == Fill("Group", Group_fill_defaults(Last(codec.hist)))

FillUserTypeBody == Fill("UserTypeBody", UserTypeBody_fill_defaults(Last(codec.hist)))

FillUpdateGroup == Fill("UpdateGroup", UpdateGroup_fill_defaults(Last(codec.hist)))

NextCodec == FillUser \/ FillGroup \/ FillUserTypeBody \/ FillUpdateGroup

SpecCodec == InitCodec /\ [][NextCodec]_vars

----------------------------------------------------------------------------
(* Properties *)

Range(q) == { q[i] : i \in DOMAIN q }

NonDelete == op # "none" /\ op \notin DeleteOps

StatusIn2xx(r) == 200 =< r.StatusCode /\ r.StatusCode =< 299

\* HttpClient.Do failed, the body could not be read, or the status is not 2xx
TransportErrored ==
    Len(sent) > 0 /\ (resp = NoResp \/ resp.ReadErr \/ ~StatusIn2xx(resp))

\* the bytes are a JSON object whose schemas member is a list that starts
\* with the error-message URN
FirstSchemaIsError(b) ==
    /\ b.kind = "json"
    /\ b.doc.t = "obj"
    /\ "schemas" \in DOMAIN b.doc.v
    /\ b.doc.v["schemas"].t = "arr"
    /\ Len(b.doc.v["schemas"].v) > 0
    /\ b.doc.v["schemas"].v[1] = JStr(ErrorURN)

\* C1: in an operation that returns a triple, a transport error (network
\* failure or a status outside 200..299) gives a non-nil error with a
\* zero-valued success shape and a zero-valued error shape, and the body is
\* never decoded
C1_TransportErrorZeroShapes ==
    (NonDelete /\ TransportErrored) =>
        /\ okResp = ZeroValue(SuccessType(op))
        /\ errResp = ZeroValue(ErrorType(op))
        /\ pc \in {"responded", "returned"}
        /\ "decode" \notin Range(steps)
        /\ (pc = "returned" => err # Nil)

C1_Witness ==
    /\ pc = "returned"
    /\ op = "CreateUser"
    /\ resp.StatusCode = 300
    /\ ~resp.ReadErr
    /\ FirstSchemaIsError(resp.Body)
    /\ err # Nil
    /\ errResp = ZeroValue(UserErrorResponseT)

\* C2 as stated: a 2xx body whose decoded schema list starts with the
\* error-message URN always gives a non-zero error shape and a nil error,
\* whatever its other members are
C2_Original ==
    (/\ pc = "returned"
     /\ NonDelete
     /\ body # NoBytes
     /\ Len(okResp.Schemas) > 0
     /\ okResp.Schemas[1] = ErrorURN)
    => (errResp # ZeroValue(ErrorType(op)) /\ err = Nil)

\* each of scimType, detail and status is absent, null or a JSON string
ErrorMembersAreStrings(b) ==
    \A k \in {"scimType", "detail", "status"} :
        k \in DOMAIN b.doc.v => b.doc.v[k].t \in {"str", "null"}

\* C2 amended: when a 2xx body decodes into the success shape without error
\* and its first schema entry is the error-message URN, the error shape
\* returned is not zero-valued (it holds the body's schema list), and the
\* error returned is nil exactly when scimType, detail and status are each
\* absent, null or a JSON string; otherwise the second decode's error is
\* returned
C2_SentinelFillsErrorShape ==
    (/\ pc = "returned"
     /\ NonDelete
     /\ "sentinel" \in Range(steps)
     /\ okResp.Schemas[1] = ErrorURN)
    => /\ errResp # ZeroValue(ErrorType(op))
       /\ errResp.Schemas = okResp.Schemas
       /\ (err = Nil <=> ErrorMembersAreStrings(body))
       /\ (err = Nil /\ "status" \in DOMAIN body.doc.v /\ body.doc.v["status"].t = "str"
              => errResp.Status = body.doc.v["status"].v)

C2_Witness ==
    /\ pc = "returned"
    /\ op = "CreateGroup"
    /\ "sentinel" \in Range(steps)
    /\ okResp.Schemas = <<ErrorURN>>
    /\ errResp.Status = "409"
    /\ errResp.Detail = "conflict"
    /\ err = Nil

\* C3: a response whose first schema entry is not the error-message URN
\* gives a zero-valued error shape: in every returned result a non-empty
\* Status of the error shape means the first schema entry was the sentinel
C3_NoSentinelZeroErrorShape ==
    (pc = "returned" /\ NonDelete /\ ~FirstSchemaIsError(resp.Body))
    => (errResp = ZeroValue(ErrorType(op)) /\ errResp.Status = "")

C3_Witness ==
    /\ pc = "returned"
    /\ op = "GetUserByID"
    /\ "sentinel" \in Range(steps)
    /\ okResp.Schemas = <<CoreUserURN, ErrorURN>>
    /\ "status" \in DOMAIN body.doc.v
    /\ body.doc.v["status"] = JStr("409")
    /\ errResp.Status = ""
    /\ err = Nil

\* C4: every call of a non-delete operation ends by returning its triple,
\* whatever the transport outcome and the body are; no call ends another way
C4_EveryCallReturns == pc # "panicked"

\* C5: once a response and its body have been received, doRequest succeeds
\* exactly when the status code is in 200..299: then it returns the body
\* unchanged with a nil error, otherwise no body and an error that carries
\* the body and the status code
C5_StatusDecidesTransport ==
    (resp # NoResp /\ ~resp.ReadErr /\ pc # "responded") =>
        IF 200 =< resp.StatusCode /\ resp.StatusCode =< 299
        THEN /\ body = resp.Body
             /\ err.kind \notin {"status", "read", "net"}
             /\ (pc = "transported" => err = Nil)
        ELSE /\ pc = "returned"
             /\ body = NoBytes
             /\ err = [kind |-> "status", body |-> resp.Body, code |-> resp.StatusCode]

C5_Witness ==
    /\ pc = "returned"
    /\ resp.StatusCode = 199
    /\ ~resp.ReadErr
    /\ resp.Body.kind = "json"
    /\ err.kind = "status"
    /\ err.code = 199
    /\ err.body = resp.Body

CanonicalAuthorization == <<"A","u","t","h","o","r","i","z","a","t","i","o","n">>

CanonicalContentType == <<"C","o","n","t","e","n","t","-","T","y","p","e">>

\* C6: every request that is sent carries Authorization: Bearer <ApiToken>
\* and the JSON content type, both set before it is sent
C6_SentCarriesHeaders ==
    \A i \in DOMAIN sent :
        LET h == sent[i].header
        IN  /\ CanonicalAuthorization \in DOMAIN h
            /\ h[CanonicalAuthorization] = "Bearer " \o client.ApiToken
            /\ CanonicalContentType \in DOMAIN h
            /\ h[CanonicalContentType] = "application/json"
            /\ \E j, k \in DOMAIN steps :
                  j < k /\ steps[j] = "headers" /\ steps[k] = "send"

C6_Witness ==
    /\ Len(sent) = 1
    /\ op = "DeleteGroup"
    /\ client.ApiToken = "tok-B"
    /\ sent[1].header[CanonicalAuthorization] = "Bearer tok-B"

C7_Default(type) ==
    CASE type = "User"         -> <<CoreUserURN>>
      [] type = "Group"        -> <<CoreGroupURN>>
      [] type = "UserTypeBody" -> <<CoreUserURN, ExtensionSchemaURN>>
      [] type = "UpdateGroup"  -> <<PatchOpURN>>

\* C7: for User, Group, UserTypeBody and UpdateGroup, fill_defaults leaves a
\* non-empty schema list exactly as given, sets the type's default list only
\* when the list is empty, and a second application changes nothing
C7_FillDefaultsIdempotent ==
    \A i \in 2..Len(codec.hist) :
        /\ codec.hist[i].Schemas =
              IF codec.hist[1].Schemas = << >> THEN C7_Default(codec.type)
              ELSE codec.hist[1].Schemas
        /\ (i >= 3 => codec.hist[i].Schemas = codec.hist[i - 1].Schemas)

C7_Witness ==
    /\ codec.type = "UpdateGroup"
    /\ Len(codec.hist) = 3
    /\ codec.hist[1].Schemas = << >>
    /\ codec.hist[2].Schemas = <<PatchOpURN>>
    /\ codec.hist[3].Schemas = <<PatchOpURN>>

WriteOps ==
    {"CreateUser", "UpdateUser", "ChangeUserType", "CreateGroup", "UpdateGroup",
     "GroupMemberOps", "AddUserToGroup", "RemoveUserToGroup"}

\* the requests this call has built or sent
Outgoing == ({req} \cup Range(sent)) \ {NoReq}

\* C8: in every write operation the body that is built and sent has a
\* schemas member that is a non-empty list
C8_SentSchemasNonEmpty ==
    op \in WriteOps =>
        \A r \in Outgoing :
            /\ r.body.kind = "json"
            /\ "schemas" \in DOMAIN r.body.doc.v
            /\ r.body.doc.v["schemas"].t = "arr"
            /\ Len(r.body.doc.v["schemas"].v) > 0

C8_Witness ==
    /\ op = "GroupMemberOps"
    /\ Len(sent) = 1
    /\ sent[1].body.doc.v["schemas"] = JArr(<< JStr(PatchOpURN) >>)

\* C9: the payload of CreateUser and UpdateUser has schemas = [core User
\* URN] when the caller's Schemas is empty and timezone = Europe/Istanbul
\* when the caller's Timezone is empty; a non-empty Schemas or Timezone and
\* every other field are sent as the caller gave them
C9_UserPayloadDefaults ==
    op \in {"CreateUser", "UpdateUser"} =>
        \A r \in Outgoing :
            LET u == args.user
                d == r.body.doc.v
                l == IF u.Schemas = << >>
                     THEN <<"urn:ietf:params:scim:schemas:core:2.0:User">>
                     ELSE u.Schemas
            IN  /\ r.body.kind = "json"
                /\ d["schemas"] = JArr([i \in DOMAIN l |-> JStr(l[i])])
                /\ d["timezone"] =
                      JStr(IF u.Timezone = "" THEN "Europe/Istanbul" ELSE u.Timezone)
                /\ d["userName"] = JStr(u.UserName)
                /\ d["active"] = JBool(u.Active)
                /\ d["name"] = JObj([familyName |-> JStr(u.Name.FamilyName),
                                     givenName  |-> JStr(u.Name.GivenName)])
                /\ d["emails"] = JArr([i \in DOMAIN u.Emails |->
                                        JObj([primary |-> JBool(u.Emails[i].Primary),
                                              value   |-> JStr(u.Emails[i].Value)])])

C9_Witness ==
    /\ op = "CreateUser"
    /\ args.user.Schemas = << >>
    /\ args.user.Timezone = ""
    /\ Len(sent) = 1
    /\ sent[1].body.doc.v["schemas"] = JArr(<< JStr(CoreUserURN) >>)
    /\ sent[1].body.doc.v["timezone"] = JStr("Europe/Istanbul")

\* C10: DeleteUser and DeleteGroup never decode the body; they return nil
\* when the transport step succeeds, whatever the body holds, and a non-nil
\* error exactly when request construction or the transport step fails
C10_DeleteIgnoresBody ==
    (pc = "returned" /\ op \in DeleteOps) =>
        LET id     == IF op = "DeleteUser" THEN args.userID ELSE args.groupID
            failed == \/ id \in BadIDs
                      \/ resp = NoResp
                      \/ resp.ReadErr
                      \/ ~StatusIn2xx(resp)
        IN  /\ err # Nil <=> failed
            /\ "decode" \notin Range(steps)
            /\ okResp = NoValue
            /\ errResp = NoValue

C10_Witness ==
    /\ pc = "returned"
    /\ op = "DeleteGroup"
    /\ resp.StatusCode = 200
    /\ FirstSchemaIsError(resp.Body)
    /\ body = resp.Body
    /\ err = Nil

\* the character a %XX escape stands for
HexChar(a, b) ==
    CASE <<a, b>> = <<"2", "2">> -> "\""
      [] <<a, b>> = <<"2", "5">> -> "%"
      [] <<a, b>> = <<"2", "6">> -> "&"
      [] <<a, b>> = <<"2", "B">> -> "+"
      [] <<a, b>> = <<"3", "D">> -> "="

RECURSIVE QueryUnescape(_)
\* what the receiver of a query string reads: + is a space, %XX a character
QueryUnescape(s) ==
    IF s = << >> THEN << >>
    ELSE IF Head(s) = "+" THEN <<" ">> \o QueryUnescape(Tail(s))
    ELSE IF Head(s) = "%" /\ Len(s) >= 3
         THEN <<HexChar(s[2], s[3])>> \o QueryUnescape(SubSeq(s, 4, Len(s)))
    ELSE <<Head(s)>> \o QueryUnescape(Tail(s))

\* the query string holds one parameter, named key, whose value is value
OneParameter(q, key, value) ==
    /\ Cardinality({ i \in DOMAIN q : q[i] = "=" }) = 1
    /\ "&" \notin Range(q)
    /\ LET i == CHOOSE i \in DOMAIN q : q[i] = "="
       IN  /\ QueryUnescape(SubSeq(q, 1, i - 1)) = key
           /\ QueryUnescape(SubSeq(q, i + 1, Len(q))) = value

\* C11: GetUserByName(name) sends a GET to the Users collection with exactly
\* one query parameter, filter, whose value is userName eq "<name>", and
\* GetGroupByName(name) one to the Groups collection with the value
\* displayName eq "<name>", for every name
C11_FilterQuery ==
    /\ op = "GetUserByName" =>
          \A r \in Outgoing :
              /\ r.url = client.BaseUrl \o "Users"
              /\ OneParameter(r.rawQuery, <<"f","i","l","t","e","r">>,
                    <<"u","s","e","r","N","a","m","e"," ","e","q"," ","\"">>
                    \o args.userName \o <<"\"">>)
    /\ op = "GetGroupByName" =>
          \A r \in Outgoing :
              /\ r.url = client.BaseUrl \o "Groups"
              /\ OneParameter(r.rawQuery, <<"f","i","l","t","e","r">>,
                    <<"d","i","s","p","l","a","y","N","a","m","e"," ","e","q"," ","\"">>
                    \o args.groupName \o <<"\"">>)

C11_Witness ==
    /\ op = "GetUserByName"
    /\ args.userName = <<"j","d","o","e">>
    /\ Len(sent) = 1
    /\ sent[1].rawQuery =
          <<"f","i","l","t","e","r","=","u","s","e","r","N","a","m","e","+","e","q","+",
            "%","2","2","j","d","o","e","%","2","2">>

\* C12: AddUserToGroup(g, u) and RemoveUserToGroup(g, u) each send one
\* PATCH to Groups/<g> whose body has schemas = [PatchOp URN] and exactly one
\* Operations entry with op "Add" (respectively "Remove"), path "members"
\* and value = [{value: u}]
C12_MemberPatchBody ==
    op \in {"AddUserToGroup", "RemoveUserToGroup"} =>
        /\ Len(sent) =< 1
        /\ (pc = "returned" /\ args.groupID \notin BadIDs => Len(sent) = 1)
        /\ \A r \in Outgoing :
              /\ r.method = "PATCH"
              /\ r.url = client.BaseUrl \o "Groups/" \o args.groupID
              /\ r.body =
                    Bytes("json",
                      JObj([schemas |->
                                JArr(<< JStr("urn:ietf:params:scim:api:messages:2.0:PatchOp") >>),
                            Operations |->
                                JArr(<< JObj([op    |-> JStr(IF op = "AddUserToGroup"
                                                             THEN "Add" ELSE "Remove"),
                                              path  |-> JStr("members"),
                                              value |-> JArr(<< JObj([value |->
                                                            JStr(args.userID)]) >>)]) >>)]))

C12_Witness ==
    /\ op = "RemoveUserToGroup"
    /\ pc = "returned"
    /\ args = [groupID |-> "g-456", userID |-> "u-123", operation |-> "Remove"]
    /\ Len(sent) = 1
    /\ sent[1].body.doc.v["Operations"].v[1].v["op"] = JStr("Remove")

\* C13: ChangeUserType sends a PUT to Users/<id> whose vendor-extension
\* attribute nrUserType is "Full User" for Full, "Core User" for Core and
\* "Basic User" for Basic
C13_UserTypeString ==
    op = "ChangeUserType" =>
        \A r \in Outgoing :
            LET d == r.body.doc.v
                k == "urn:ietf:params:scim:schemas:extension:newrelic:2.1:User"
            IN  /\ r.method = "PUT"
                /\ r.url = client.BaseUrl \o "Users/" \o args.userID
                /\ k \in DOMAIN d
                /\ d[k] = JObj([nrUserType |->
                              JStr(CASE args.userType = Full  -> "Full User"
                                     [] args.userType = Core  -> "Core User"
                                     [] args.userType = Basic -> "Basic User")])

C13_Witness ==
    /\ op = "ChangeUserType"
    /\ args.userType = Core
    /\ Len(sent) = 1
    /\ sent[1].body.doc.v[ExtensionKeyURN].v["nrUserType"] = JStr("Core User")

\* C14: UserList and GroupList issue their request with the method GET, the
\* token the get-by-id and get-by-name operations use, to the collection
\* paths Users and Groups, with no body
C14_ListUsesGET ==
    op \in {"UserList", "GroupList"} =>
        \A r \in Range(sent) :
            /\ r.method = "GET"
            /\ r.url = client.BaseUrl \o (IF op = "UserList" THEN "Users" ELSE "Groups")
            /\ r.body = NoBytes

\* C15: after NewClient no operation changes the client: BaseUrl, ApiToken
\* and the HTTP client with its 20-second timeout stay as constructed
C15_ClientUnchanged ==
    /\ [](/\ client.BaseUrl = "https://scim-provisioning.service.newrelic.com/scim/v2/"
          /\ client.ApiToken \in Tokens
          /\ client.HttpClient = [Timeout |-> 20])
    /\ [][client' = client]_vars

C15_Witness ==
    /\ pc = "returned"
    /\ op = "UpdateUser"
    /\ err # Nil
    /\ Len(sent) = 1
    /\ client = [BaseUrl    |-> "https://scim-provisioning.service.newrelic.com/scim/v2/",
                 ApiToken   |-> "tok-B",
                 HttpClient |-> [Timeout |-> 20]]

\* the ids this call puts into the path of its URL
UrlIDs ==
    IF "groupID" \in DOMAIN args THEN {args.groupID}
    ELSE IF "userID" \in DOMAIN args THEN {args.userID}
    ELSE {}

IsPrefix(p, q) == Len(p) =< Len(q) /\ p = SubSeq(q, 1, Len(p))

\* C17: a call performs at most one HTTP exchange and never retries: nothing
\* is sent when request construction fails, exactly one request otherwise,
\* and the steps come in the order build, send, decode, sentinel check,
\* return
C17_OneExchangeNoRetry ==
    /\ Len(sent) =< 1
    /\ IsPrefix(steps, <<"build", "headers", "send", "read", "decode", "sentinel">>)
    /\ (Len(sent) = 1 <=> "send" \in Range(steps))
    /\ (pc \in {"returned", "panicked"} => steps # << >>)
    /\ (pc = "returned" => (Len(sent) = 0 <=> UrlIDs \cap BadIDs # {}))
    /\ (pc = "returned" /\ Len(sent) = 0 => err # Nil)

C17_Witness ==
    /\ pc = "returned"
    /\ op = "GetUserByID"
    /\ err = [kind |-> "net"]
    /\ Len(sent) = 1
    /\ steps = <<"build", "headers", "send">>

\* C18: a 2xx body that cannot be decoded into the success shape makes a
\* non-delete operation return the decode error with a zero-valued error
\* shape, without the sentinel check or a second decode; the success shape
\* may be partly filled
C18_DecodeFailureReturns ==
    (/\ NonDelete
     /\ body # NoBytes
     /\ pc # "transported"
     /\ Unmarshal(body, SuccessType(op), ZeroValue(SuccessType(op))).err # Nil)
    => /\ pc = "returned"
       /\ err.kind \in {"SyntaxError", "UnmarshalTypeError"}
       /\ errResp = ZeroValue(ErrorType(op))
       /\ "sentinel" \notin Range(steps)
       /\ steps[Len(steps)] = "decode"

C18_Witness ==
    /\ pc = "returned"
    /\ op = "GetGroupByID"
    /\ okResp.Schemas = <<ErrorURN>>
    /\ okResp.TotalResults = 0
    /\ "totalResults" \in DOMAIN body.doc.v
    /\ body.doc.v["totalResults"] = JStr("1")
    /\ err = [kind |-> "UnmarshalTypeError"]
    /\ errResp = ZeroValue(GroupErrorResponseT)

\* C19: in every body ChangeUserType sends, the URN that is the JSON key of
\* the nrUserType attribute is one of the URNs in the body's schemas
C19_ExtensionKeyDeclared ==
    op = "ChangeUserType" =>
        \A r \in Range(sent) :
            LET d == r.body.doc.v
            IN  \A k \in DOMAIN d \ {"schemas"} :
                    \E i \in DOMAIN d["schemas"].v : d["schemas"].v[i] = JStr(k)

\* C20: GetGroupByID, answered 2xx with a single group resource, returns a
\* success shape from which the caller reads the group's id and display name
C20_GroupByIDReadable ==
    (/\ pc = "returned"
     /\ op = "GetGroupByID"
     /\ err = Nil
     /\ body = GroupResourceBody)
    => \/ /\ "ID" \in DOMAIN okResp
          /\ okResp.ID = "g-456"
          /\ okResp.DisplayName = "Admins"
       \/ \E i \in DOMAIN okResp.Resources :
             /\ okResp.Resources[i].ID = "g-456"
             /\ okResp.Resources[i].DisplayName = "Admins"

----------------------------------------------------------------------------
(* Two callers on one Client.  Every variable of a call is a local of the  *)
(* goroutine that runs it; the Client is the one value both hold.  The     *)
(* variables of the module hold the locals of the caller that takes the    *)
(* next step, parked those of the other one, and Switch hands over.        *)

\* the locals of the running call
Locals ==
    [pc |-> pc, op |-> op, args |-> args, req |-> req, sent |-> sent, resp |-> resp,
     body |-> body, steps |-> steps, okResp |-> okResp, errResp |-> errResp, err |-> err,
     callerUser |-> callerUser]

IdleLocals ==
    [pc |-> "idle", op |-> "none", args |-> NoArgs, req |-> NoReq, sent |-> << >>,
     resp |-> NoResp, body |-> NoBytes, steps |-> << >>, okResp |-> NoValue,
     errResp |-> NoValue, err |-> Nil, callerUser |-> NoUser]

InitPar ==
    /\ client \in { NewClient(t) : t \in Tokens }
    /\ pc = "idle"
    /\ op = "none"
    /\ args = NoArgs
    /\ req = NoReq
    /\ sent = << >>
    /\ resp = NoResp
    /\ body = NoBytes
    /\ steps = << >>
    /\ okResp = NoValue
    /\ errResp = NoValue
    /\ err = Nil
    /\ codec = NoCodec
    /\ parked = IdleLocals
    /\ callerUser = NoUser

\* the other caller takes the next step
Switch ==
    /\ parked # Locals
    /\ parked' = Locals
    /\ pc' = parked.pc
    /\ op' = parked.op
    /\ args' = parked.args
    /\ req' = parked.req
    /\ sent' = parked.sent
    /\ resp' = parked.resp
    /\ body' = parked.body
    /\ steps' = parked.steps
    /\ okResp' = parked.okResp
    /\ errResp' = parked.errResp
    /\ err' = parked.err
    /\ callerUser' = parked.callerUser
    /\ UNCHANGED <<client, codec>>

SentinelBody ==
    Bytes("json", ObjOf({ <<"schemas", JArr(<< JStr(ErrorURN) >>)>>,
                          <<"status", JStr("409")>>, <<"detail", JStr("conflict")>>,
                          <<"scimType", JStr("uniqueness")>> }))

ParBodies == { GroupResourceBody, SentinelBody, Bytes("invalid", JNull) }

ParUsers ==
    { u \in Users : /\ u.Active
                    /\ u.Schemas \in { << >>, <<"urn:example:custom">> }
                    /\ (u.Timezone = "" <=> u.Schemas = << >>) }

\* the arguments and responses the two callers are given
ParLimit ==
    /\ "user" \in DOMAIN args => args.user \in ParUsers
    /\ "userType" \in DOMAIN args => args.userType = Core
    /\ "userName" \in DOMAIN args => args.userName = <<"j","d","o","e">>
    /\ "groupName" \in DOMAIN args /\ op = "GetGroupByName" =>
          args.groupName = <<"A","d","m","i","n","s">>
    /\ "groupName" \in DOMAIN args /\ op # "GetGroupByName" => args.groupName = "Admins"
    /\ "operation" \in DOMAIN args /\ op = "GroupMemberOps" => args.operation = "Replace"
    /\ "userID" \in DOMAIN args /\ op # "DeleteUser" => args.userID \notin BadIDs
    /\ "groupID" \in DOMAIN args => args.groupID \notin BadIDs
    /\ resp # NoResp => /\ resp.StatusCode \in {200, 300}
                        /\ resp.Body \in ParBodies
                        /\ ~resp.ReadErr

NextPar ==
    \/ UserList /\ ParLimit'
    \/ GetUserByID /\ ParLimit'
    \/ GetUserByName /\ ParLimit'
    \/ CreateUser /\ ParLimit'
    \/ UpdateUser /\ ParLimit'
    \/ DeleteUser /\ ParLimit'
    \/ ChangeUserType /\ ParLimit'
    \/ CreateGroup /\ ParLimit'
    \/ UpdateGroup /\ ParLimit'
    \/ GroupList /\ ParLimit'
    \/ GetGroupByID /\ ParLimit'
    \/ GetGroupByName /\ ParLimit'
    \/ GroupMemberOps /\ ParLimit'
    \/ AddUserToGroup /\ ParLimit'
    \/ RemoveUserToGroup /\ ParLimit'
    \/ DeleteGroup /\ ParLimit'
    \/ SetHeaders
    \/ Do /\ ParLimit'
    \/ ReadBody
    \/ ReturnDeleted
    \/ UnmarshalSuccess
    \/ SentinelCheck
    \/ NextCall
    \/ Switch

SpecPar == InitPar /\ [][NextPar]_vars

\* what a call sends is the same for two calls with the same arguments
SameRequest(a, b) ==
    /\ (a.req # NoReq /\ b.req # NoReq) =>
          /\ a.req.method = b.req.method
          /\ a.req.url = b.req.url
          /\ a.req.rawQuery = b.req.rawQuery
          /\ a.req.body = b.req.body
    /\ (Len(a.steps) >= 2 /\ Len(b.steps) >= 2) => a.req = b.req
    /\ (a.sent # << >> /\ b.sent # << >>) => a.sent = b.sent

\* what a call returns is the same for two calls with the same arguments
\* and the same response
SameResult(a, b) ==
    (a.pc = "returned" /\ b.pc = "returned" /\ a.resp = b.resp) =>
        /\ a.body = b.body
        /\ a.okResp = b.okResp
        /\ a.errResp = b.errResp
        /\ a.err = b.err

\* C16: with several callers on one Client, under every interleaving the
\* request and the result of a call depend only on its own arguments, the
\* client configuration and the response to its own request, and no call
\* reads or writes what another call wrote
C16_CallsIndependent ==
    /\ [](parked # NoParked =>
            /\ (op = parked.op /\ args = parked.args) =>
                  (SameRequest(Locals, parked) /\ SameResult(Locals, parked))
            /\ \A k \in {Locals, parked} :
                  /\ k.body \in {NoBytes, k.resp.Body}
                  /\ \A i \in DOMAIN k.sent :
                        k.sent[i].header[CanonicalAuthorization]
                            = "Bearer " \o client.ApiToken)
    /\ [][\/ parked' = parked /\ client' = client
          \/ parked' = Locals /\ Locals' = parked /\ client' = client]_vars

C16_Witness ==
    /\ parked # NoParked
    /\ op = "CreateUser"
    /\ parked.op = "CreateUser"
    /\ args = parked.args
    /\ pc = "returned"
    /\ parked.pc = "returned"
    /\ sent = parked.sent
    /\ Len(sent) = 1
    /\ resp.StatusCode = 200
    /\ parked.resp.StatusCode = 300
    /\ err = Nil
    /\ errResp.Status = "409"
    /\ parked.err # Nil
    /\ parked.errResp = ZeroValue(UserErrorResponseT)

----------------------------------------------------------------------------
\* C21: CreateUser and UpdateUser leave the caller's User unchanged: at every
\* point of the call and after it, successful or failed, the caller's value,
\* its Schemas and Timezone included, is the value that was passed, also
\* when they were empty; the defaults are only in the payload built from
\* the operation's copy
C21_CallerUserUnchanged ==
    /\ [](op \in {"CreateUser", "UpdateUser"} =>
            /\ callerUser = args.user
            /\ callerUser.Schemas = args.user.Schemas
            /\ callerUser.Timezone = args.user.Timezone
            /\ callerUser \in Users)
    /\ [][(op \in {"CreateUser", "UpdateUser"} /\ op' = op) =>
             callerUser' = callerUser]_vars

C21_Witness ==
    /\ op = "UpdateUser"
    /\ pc = "returned"
    /\ err = Nil
    /\ args.user.Schemas = << >>
    /\ args.user.Timezone = ""
    /\ callerUser.Schemas = << >>
    /\ callerUser.Timezone = ""
    /\ Len(sent) = 1
    /\ sent[1].body.doc.v["schemas"] = JArr(<< JStr(CoreUserURN) >>)
    /\ sent[1].body.doc.v["timezone"] = JStr(DefaultTimezone)

====
